---- MODULE Spec2Model ----
(***************************************************************************)
(* Model of docker/embedding-server.py: a Flask application that loads a   *)
(* SentenceTransformer model at import time and serves POST /embed and     *)
(* GET /health.                                                            *)
(*                                                                         *)
(* Conventions.  A JSON / Python value is a record of one fixed shape      *)
(* [t, n, s, l, o]: t is the type tag, n the number (or 0/1 for a bool),   *)
(* s the characters of a string, l the elements of a list, o the           *)
(* key/value pairs of an object.  A Python str is the sequence of its      *)
(* characters; the fixed message literals of the program and of the        *)
(* libraries are written as one-element sequences holding the whole text.  *)
(***************************************************************************)
EXTENDS Integers, Sequences, FiniteSets, TLC

\* ------------------------------------------------------------------ bounds
NumWorkers == 2
MaxRequests == 3

Workers == 1..NumWorkers

\* ------------------------------------------------------------- JSON values
JNull == [t |-> "null", n |-> 0, s |-> <<>>, l |-> <<>>, o |-> <<>>]
JBool(b) == [t |-> "bool", n |-> IF b THEN 1 ELSE 0, s |-> <<>>, l |-> <<>>, o |-> <<>>]
JNum(k) == [t |-> "num", n |-> k, s |-> <<>>, l |-> <<>>, o |-> <<>>]
JStr(cs) == [t |-> "str", n |-> 0, s |-> cs, l |-> <<>>, o |-> <<>>]
JList(xs) == [t |-> "list", n |-> 0, s |-> <<>>, l |-> xs, o |-> <<>>]
JObj(kvs) == [t |-> "obj", n |-> 0, s |-> <<>>, l |-> <<>>, o |-> kvs]
KV(key, val) == [k |-> key, v |-> val]

\* the literal 'inputs' of lines 21 and 24
INPUTS == <<"i", "n", "p", "u", "t", "s">>

\* Python truthiness of a decoded JSON value (`not data`, line 21)
Falsy(d) ==
    CASE d.t = "null" -> TRUE
      [] d.t = "bool" -> d.n = 0
      [] d.t = "num"  -> d.n = 0
      [] d.t = "str"  -> d.s = <<>>
      [] d.t = "list" -> d.l = <<>>
      [] d.t = "obj"  -> d.o = <<>>

\* `key in d` raises TypeError for a value that is no container (line 21)
InRaises(d) == d.t \in {"num", "bool"}

\* `key in d` (line 21): dict key, list element, substring
Contains(key, d) ==
    CASE d.t = "obj"  -> \E i \in 1..Len(d.o) : d.o[i].k = key
      [] d.t = "list" -> \E i \in 1..Len(d.l) : d.l[i] = JStr(key)
      [] d.t = "str"  -> \E i \in 0..(Len(d.s) - Len(key)) :
                             SubSeq(d.s, i + 1, i + Len(key)) = key
      [] OTHER -> FALSE

\* d[key] raises TypeError unless d is a dict (line 24)
SubscriptRaises(d) == d.t # "obj"

\* str(e) of the TypeError `key in d` raises
InMessage(d) ==
    IF d.t = "bool"
    THEN <<"argument of type 'bool' is not iterable">>
    ELSE <<"argument of type 'int' is not iterable">>

\* str(e) of the TypeError d[key] raises
SubscriptMessage(d) ==
    IF d.t = "list"
    THEN <<"list indices must be integers or slices, not str">>
    ELSE <<"string indices must be integers">>

\* d[key] for a dict holding key (line 24)
Subscript(d, key) == d.o[CHOOSE i \in 1..Len(d.o) : d.o[i].k = key].v

\* isinstance(x, str) (lines 27 and 36)
IsStr(x) == x.t = "str"

\* ------------------------------------------------------------ the requests
\* A request body, sent with a JSON Content-Type: text says whether the body
\* is empty, malformed or a JSON document, val is the document.
Raw(text, val) == [text |-> text, val |-> val]
Doc(val) == Raw("json", val)
A == <<"a">>
B == <<"b">>

Requests ==
    { Raw("empty", JNull),
      Raw("malformed", JNull),
      Doc(JNull),
      Doc(JObj(<<>>)),
      Doc(JObj(<<KV(<<"x">>, JStr(A))>>)),
      Doc(JNum(5)),
      Doc(JList(<<JStr(INPUTS)>>)),
      Doc(JStr(<<"x">> \o INPUTS)),
      Doc(JObj(<<KV(INPUTS, JStr(A))>>)),
      Doc(JObj(<<KV(INPUTS, JList(<<JStr(A)>>))>>)),
      Doc(JObj(<<KV(INPUTS, JList(<<JStr(B), JStr(A)>>))>>)),
      Doc(JObj(<<KV(INPUTS, JList(<<>>))>>)),
      Doc(JObj(<<KV(INPUTS, JList(<<JStr(A), JNum(7)>>))>>)) }

\* ---------------------------------------------------------------- the state
VARIABLES
    environ,      \* os.environ: MODEL_ID and PORT, UNSET when absent
    phase,        \* position of the module-level code, lines 11-54
    model_name,   \* line 11
    model,        \* line 13
    loadCount,    \* how many times line 13 has run
    port,         \* line 52
    pc,           \* per worker: position inside embed()
    req,          \* per worker: the request being handled
    inputs,       \* per worker: local of embed(), line 24
    texts,        \* per worker: local of embed(), lines 27-30
    embeddings,   \* per worker: local of embed(), line 33
    calls,        \* per worker: calls of model.encode made for this request
    arg,          \* per worker: argument of the last model.encode call
    afterFail,    \* per worker: some request had failed when this one arrived
    arrived,      \* number of requests accepted so far
    log,          \* completed /embed requests with their responses
    healthLog     \* responses given by /health

vars == <<environ, phase, model_name, model, loadCount, port, pc, req,
          inputs, texts, embeddings, calls, arg, afterFail, arrived,
          log, healthLog>>

startup == <<environ, phase, model_name, model, loadCount, port>>
frames == <<pc, req, inputs, texts, embeddings, calls, arg, afterFail>>

UNSET == "<unset>"
DefaultModel == "sentence-transformers/all-MiniLM-L6-v2"
NoModel == [loaded |-> FALSE, id |-> ""]

\* os.getenv(key, default), lines 11 and 52
getenv(key, default) == IF environ[key] = UNSET THEN default ELSE environ[key]

\* int(x) of line 52 raises ValueError unless x is a decimal numeral
IntRaises(x) == x \notin {"8088", "9000"}
\* int(x) of line 52
int(x) == IF x = "9000" THEN 9000 ELSE 8088

Init ==
    /\ environ \in [MODEL_ID : {UNSET, "custom/model"}, PORT : {UNSET, "abc"}]
    /\ phase = "import"
    /\ model_name = ""
    /\ model = NoModel
    /\ loadCount = 0
    /\ port = 0
    /\ pc = [w \in Workers |-> "idle"]
    /\ req = [w \in Workers |-> Raw("empty", JNull)]
    /\ inputs = [w \in Workers |-> JNull]
    /\ texts = [w \in Workers |-> JNull]
    /\ embeddings = [w \in Workers |-> <<>>]
    /\ calls = [w \in Workers |-> 0]
    /\ arg = [w \in Workers |-> JNull]
    /\ afterFail = [w \in Workers |-> FALSE]
    /\ arrived = 0
    /\ log = {}
    /\ healthLog = {}

\* ------------------------------------------------------------------ startup
\* line 11: model_name = os.getenv('MODEL_ID', default)
ResolveModelName ==
    /\ phase = "import"
    /\ model_name' = getenv("MODEL_ID", DefaultModel)
    /\ phase' = "named"
    /\ UNCHANGED <<environ, model, loadCount, port, frames, arrived,
                   log, healthLog>>

\* variant of LoadModel: the load is wrapped in a try/except that swallows the
\* failure, so the module goes on to start the server without a model
LoadModelSwallow ==
    /\ phase = "named"
    /\ loadCount' = loadCount + 1
    /\ \E ok \in BOOLEAN :
          model' = IF ok THEN [loaded |-> TRUE, id |-> model_name] ELSE model
    /\ phase' = "loaded"
    /\ UNCHANGED <<environ, model_name, port, frames, arrived, log,
                   healthLog>>

\* line 13: model = SentenceTransformer(model_name); an exception raised here
\* is uncaught at module level and ends the process
LoadModel ==
    /\ phase = "named"
    /\ loadCount' = loadCount + 1
    /\ \E ok \in BOOLEAN :
          IF ok
          THEN /\ model' = [loaded |-> TRUE, id |-> model_name]
               /\ phase' = "loaded"
          ELSE /\ model' = model
               /\ phase' = "crashed"
    /\ UNCHANGED <<environ, model_name, port, frames, arrived, log,
                   healthLog>>

\* lines 51-54: port = int(os.getenv('PORT', 8088)); app.run(...)
StartServer ==
    /\ phase = "loaded"
    /\ LET p == getenv("PORT", "8088") IN
          IF IntRaises(p)
          THEN /\ phase' = "crashed"
               /\ port' = port
          ELSE /\ phase' = "serving"
               /\ port' = int(p)
    /\ UNCHANGED <<environ, model_name, model, loadCount, frames,
                   arrived, log, healthLog>>

\* ------------------------------------------------------- library behaviour
\* request.get_json() raises BadRequest (line 19) when the body is empty or
\* is not well-formed JSON
GetJsonRaises(r) == r.text # "json"

\* str(e) of the BadRequest get_json raises
GetJsonMessage(r) ==
    IF r.text = "empty"
    THEN <<"400 Bad Request: Failed to decode JSON object: Expecting value">>
    ELSE <<"400 Bad Request: Failed to decode JSON object: Expecting ',' delimiter">>

\* request.get_json() when it returns (line 19); JSON null decodes to None
get_json(r) == r.val

\* character weight used by the stand-in encoder
Code(c) == CASE c = "a" -> 1 [] c = "b" -> 2 [] OTHER -> 0

\* the vector the loaded model gives one text: a deterministic function of
\* the model and of the text
Embedding(m, cs) ==
    << Len(cs),
       IF cs = <<>> THEN 0 ELSE Code(cs[1]),
       IF m.id = DefaultModel THEN 0 ELSE 1 >>

\* str(e) of the exception model.encode raises
EncodeMessage(m, sentences) ==
    IF ~m.loaded
    THEN <<"'NoneType' object has no attribute 'encode'">>
    ELSE <<"encode: input is not text">>

\* model.encode(sentences) raises (line 33) when the model is not usable or
\* the argument is not a list of texts
EncodeRaises(m, sentences) ==
    \/ ~m.loaded
    \/ sentences.t # "list"
    \/ \E i \in 1..Len(sentences.l) : ~IsStr(sentences.l[i])

\* model.encode(sentences) (line 33): one row per text, in the order given
encode(m, sentences) ==
    [i \in 1..Len(sentences.l) |-> Embedding(m, sentences.l[i].s)]

\* ndarray.tolist() (lines 38 and 41): a row becomes a list of numbers
tolist(row) == JList([i \in 1..Len(row) |-> JNum(row[i])])

\* jsonify(body), status (lines 22, 38, 41, 45)
Response(status, body) == [status |-> status, body |-> body]

\* {'error': msg}
ErrorBody(msg) == JObj(<<KV(<<"error">>, JStr(msg))>>)

\* ------------------------------------------------------------ POST /embed
Idle == {w \in Workers : pc[w] = "idle"}
Failed == {e \in log : e.resp.status # 200}
NoRequest == Raw("empty", JNull)

\* embed() returns resp: the exchange is logged with the encoder calls made
\* for it (n calls, the last on a) and the worker's frame is dropped
Return(w, r, resp, n, a, after) ==
    /\ log' = log \cup {[req |-> r, resp |-> resp, calls |-> n, arg |-> a,
                         afterFail |-> after]}
    /\ pc' = [pc EXCEPT ![w] = "idle"]
    /\ req' = [req EXCEPT ![w] = NoRequest]
    /\ inputs' = [inputs EXCEPT ![w] = JNull]
    /\ texts' = [texts EXCEPT ![w] = JNull]
    /\ embeddings' = [embeddings EXCEPT ![w] = <<>>]
    /\ calls' = [calls EXCEPT ![w] = 0]
    /\ arg' = [arg EXCEPT ![w] = JNull]
    /\ afterFail' = [afterFail EXCEPT ![w] = FALSE]

\* variant of Except: the handler reports every exception as a client error
ExceptBadRequest(w, r, msg, n, a) ==
    Return(w, r, Response(400, ErrorBody(msg)), n, a,
           IF pc[w] = "idle" THEN Failed # {} ELSE afterFail[w])

\* lines 43-45: except Exception as e: return jsonify({'error': str(e)}), 500
Except(w, r, msg, n, a) ==
    Return(w, r, Response(500, ErrorBody(msg)), n, a,
           IF pc[w] = "idle" THEN Failed # {} ELSE afterFail[w])

\* line 22: return jsonify({'error': 'Missing inputs field'}), 400
Missing(w, r) ==
    Return(w, r, Response(400, ErrorBody(<<"Missing inputs field">>)), 0, JNull,
           Failed # {})

\* variant of EmbedParse: texts is a module-level global, shared by all the
\* requests in flight, instead of a local of embed()
EmbedParseSharedTexts(w, r) ==
    /\ phase = "serving"
    /\ w \in Idle
    /\ \A v \in Idle : w <= v
    /\ arrived < MaxRequests
    /\ arrived' = arrived + 1
    /\ IF GetJsonRaises(r)
       THEN Except(w, r, GetJsonMessage(r), 0, JNull)
       ELSE LET data == get_json(r) IN
            IF Falsy(data)
            THEN Missing(w, r)
            ELSE IF InRaises(data)
            THEN Except(w, r, InMessage(data), 0, JNull)
            ELSE IF ~Contains(INPUTS, data)
            THEN Missing(w, r)
            ELSE IF SubscriptRaises(data)
            THEN Except(w, r, SubscriptMessage(data), 0, JNull)
            ELSE /\ req' = [req EXCEPT ![w] = r]
                 /\ afterFail' = [afterFail EXCEPT ![w] = Failed # {}]
                 /\ inputs' = [inputs EXCEPT ![w] = Subscript(data, INPUTS)]
                 /\ texts' = [v \in Workers |->
                                IF IsStr(Subscript(data, INPUTS))
                                THEN JList(<<Subscript(data, INPUTS)>>)
                                ELSE Subscript(data, INPUTS)]
                 /\ pc' = [pc EXCEPT ![w] = "encode"]
                 /\ UNCHANGED <<embeddings, calls, arg, log>>
    /\ UNCHANGED <<startup, healthLog>>

\* lines 16-30: the framework routes a POST /embed with body r to embed() on
\* a free worker (workers are interchangeable, the lowest free one is taken);
\* embed() parses the body, looks for 'inputs' and normalises it to texts
EmbedParse(w, r) ==
    /\ phase = "serving"
    /\ w \in Idle
    /\ \A v \in Idle : w <= v
    /\ arrived < MaxRequests
    /\ arrived' = arrived + 1
    /\ IF GetJsonRaises(r)
       THEN Except(w, r, GetJsonMessage(r), 0, JNull)
       ELSE LET data == get_json(r) IN
            IF Falsy(data)
            THEN Missing(w, r)
            ELSE IF InRaises(data)
            THEN Except(w, r, InMessage(data), 0, JNull)
            ELSE IF ~Contains(INPUTS, data)
            THEN Missing(w, r)
            ELSE IF SubscriptRaises(data)
            THEN Except(w, r, SubscriptMessage(data), 0, JNull)
            ELSE /\ req' = [req EXCEPT ![w] = r]
                 /\ afterFail' = [afterFail EXCEPT ![w] = Failed # {}]
                 /\ inputs' = [inputs EXCEPT ![w] = Subscript(data, INPUTS)]
                 /\ texts' = [texts EXCEPT ![w] =
                                IF IsStr(Subscript(data, INPUTS))
                                THEN JList(<<Subscript(data, INPUTS)>>)
                                ELSE Subscript(data, INPUTS)]
                 /\ pc' = [pc EXCEPT ![w] = "encode"]
                 /\ UNCHANGED <<embeddings, calls, arg, log>>
    /\ UNCHANGED <<startup, healthLog>>

\* variant of EmbedEncode: the except branch also discards the model
EmbedEncodeDropsModel(w) ==
    /\ pc[w] = "encode"
    /\ IF EncodeRaises(model, texts[w])
       THEN /\ Except(w, req[w], EncodeMessage(model, texts[w]), calls[w] + 1, texts[w])
            /\ model' = NoModel
       ELSE /\ embeddings' = [embeddings EXCEPT ![w] = encode(model, texts[w])]
            /\ calls' = [calls EXCEPT ![w] = calls[w] + 1]
            /\ arg' = [arg EXCEPT ![w] = texts[w]]
            /\ pc' = [pc EXCEPT ![w] = "convert"]
            /\ UNCHANGED <<model, req, inputs, texts, afterFail, log>>
    /\ UNCHANGED <<environ, phase, model_name, loadCount, port, arrived, healthLog>>

\* variant of EmbedEncode: the encoder is called once per text
EmbedEncodePerText(w) ==
    /\ pc[w] = "encode"
    /\ IF EncodeRaises(model, texts[w])
       THEN Except(w, req[w], EncodeMessage(model, texts[w]), Len(texts[w].l), texts[w])
       ELSE /\ embeddings' = [embeddings EXCEPT ![w] = encode(model, texts[w])]
            /\ calls' = [calls EXCEPT ![w] = calls[w] + Len(texts[w].l)]
            /\ arg' = [arg EXCEPT ![w] = texts[w]]
            /\ pc' = [pc EXCEPT ![w] = "convert"]
            /\ UNCHANGED <<req, inputs, texts, afterFail, log>>
    /\ UNCHANGED <<startup, arrived, healthLog>>

\* line 33: embeddings = model.encode(texts)
EmbedEncode(w) ==
    /\ pc[w] = "encode"
    /\ IF EncodeRaises(model, texts[w])
       THEN Except(w, req[w], EncodeMessage(model, texts[w]), calls[w] + 1, texts[w])
       ELSE /\ embeddings' = [embeddings EXCEPT ![w] = encode(model, texts[w])]
            /\ calls' = [calls EXCEPT ![w] = calls[w] + 1]
            /\ arg' = [arg EXCEPT ![w] = texts[w]]
            /\ pc' = [pc EXCEPT ![w] = "convert"]
            /\ UNCHANGED <<req, inputs, texts, afterFail, log>>
    /\ UNCHANGED <<startup, arrived, healthLog>>

\* variant of EmbedRespond: the batch is returned last row first
EmbedRespondReversed(w) ==
    /\ pc[w] = "convert"
    /\ IF IsStr(inputs[w])
       THEN Return(w, req[w], Response(200, tolist(embeddings[w][1])),
                   calls[w], arg[w], afterFail[w])
       ELSE Return(w, req[w], Response(200,
                JList([i \in 1..Len(embeddings[w]) |->
                         tolist(embeddings[w][Len(embeddings[w]) + 1 - i])])),
                calls[w], arg[w], afterFail[w])
    /\ UNCHANGED <<startup, arrived, healthLog>>

\* variant of EmbedRespond: the single case is not unwrapped
EmbedRespondWrapped(w) ==
    /\ pc[w] = "convert"
    /\ Return(w, req[w], Response(200,
                JList([i \in 1..Len(embeddings[w]) |-> tolist(embeddings[w][i])])),
                calls[w], arg[w], afterFail[w])
    /\ UNCHANGED <<startup, arrived, healthLog>>

\* lines 36-41: shape the result like the input; embeddings[0] raises
\* IndexError on an empty result, which lines 43-45 catch
EmbedRespond(w) ==
    /\ pc[w] = "convert"
    /\ IF IsStr(inputs[w]) /\ embeddings[w] = <<>>
       THEN Except(w, req[w], <<"index 0 is out of bounds for axis 0 with size 0">>,
                   calls[w], arg[w])
       ELSE IF IsStr(inputs[w])
       THEN Return(w, req[w], Response(200, tolist(embeddings[w][1])),
                   calls[w], arg[w], afterFail[w])
       ELSE Return(w, req[w], Response(200,
                JList([i \in 1..Len(embeddings[w]) |-> tolist(embeddings[w][i])])),
                calls[w], arg[w], afterFail[w])
    /\ UNCHANGED <<startup, arrived, healthLog>>

\* ------------------------------------------------------------ GET /health
\* variant of health: the default identifier is reported, not the loaded one
healthDefault(w) ==
    /\ phase = "serving"
    /\ w \in Idle
    /\ \A v \in Idle : w <= v
    /\ arrived < MaxRequests
    /\ arrived' = arrived + 1
    /\ healthLog' = healthLog \cup
          {[resp |-> Response(200, JObj(<<KV(<<"status">>, JStr(<<"ok">>)),
                                          KV(<<"model">>, JStr(<<DefaultModel>>))>>)),
            afterFail |-> Failed # {}]}
    /\ UNCHANGED <<startup, frames, log>>

\* lines 47-49
health(w) ==
    /\ phase = "serving"
    /\ w \in Idle
    /\ \A v \in Idle : w <= v
    /\ arrived < MaxRequests
    /\ arrived' = arrived + 1
    /\ healthLog' = healthLog \cup
          {[resp |-> Response(200, JObj(<<KV(<<"status">>, JStr(<<"ok">>)),
                                          KV(<<"model">>, JStr(<<model_name>>))>>)),
            afterFail |-> Failed # {}]}
    /\ UNCHANGED <<startup, frames, log>>

Next ==
    \/ ResolveModelName
    \/ LoadModel
    \/ StartServer
    \/ \E w \in Workers, r \in Requests : EmbedParse(w, r)
    \/ \E w \in Workers : EmbedEncode(w)
    \/ \E w \in Workers : EmbedRespond(w)
    \/ \E w \in Workers : health(w)

Spec == Init /\ [][Next]_vars

\* ================================================================ properties
\* what a request carries
HasInputs(r) == r.text = "json" /\ r.val.t = "obj" /\ Contains(INPUTS, r.val)
InputsOf(r) == Subscript(r.val, INPUTS)
IsSingle(r) == HasInputs(r) /\ IsStr(InputsOf(r))
IsBatch(r) ==
    /\ HasInputs(r)
    /\ InputsOf(r).t = "list"
    /\ \A i \in 1..Len(InputsOf(r).l) : IsStr(InputsOf(r).l[i])
\* the texts of a request, in order
TextsOf(r) == IF IsSingle(r) THEN <<InputsOf(r)>> ELSE InputsOf(r).l
\* the vector a success response gives for the i-th text of its request
VecAt(e, i) == IF IsSingle(e.req) THEN e.resp.body ELSE e.resp.body.l[i]
\* the model the startup code loads for this environment
StartupName == getenv("MODEL_ID", DefaultModel)
StartupModel == [loaded |-> TRUE, id |-> StartupName]
MissingBody == ErrorBody(<<"Missing inputs field">>)

\* C1: a batch request of N texts (N >= 0) gets a success response holding
\* exactly N vectors, the i-th being the encoder's vector for the i-th text.
C1_BatchPreservesOrder ==
    \A e \in log :
        IsBatch(e.req) =>
            /\ e.resp.status = 200
            /\ e.resp.body.t = "list"
            /\ Len(e.resp.body.l) = Len(TextsOf(e.req))
            /\ \A i \in 1..Len(TextsOf(e.req)) :
                  e.resp.body.l[i] = tolist(Embedding(model, TextsOf(e.req)[i].s))

\* a batch of two different texts and the empty batch have both been answered
C1_Witness ==
    /\ \E e \in log : /\ IsBatch(e.req)
                      /\ Len(TextsOf(e.req)) = 2
                      /\ TextsOf(e.req)[1] # TextsOf(e.req)[2]
                      /\ e.resp.status = 200
    /\ \E e \in log : IsBatch(e.req) /\ TextsOf(e.req) = <<>> /\ e.resp.status = 200

\* C2: a single-string request gets the encoder's vector for that string, a
\* list of numbers with no outer list, equal to the sole element of the
\* response to the batch request holding just that string.
C2_SingleIsUnwrapped ==
    \A e \in log :
        IsSingle(e.req) =>
            /\ e.resp.status = 200
            /\ e.resp.body = tolist(Embedding(model, InputsOf(e.req).s))
            /\ e.resp.body.l # <<>>
            /\ \A i \in 1..Len(e.resp.body.l) : e.resp.body.l[i].t = "num"
            /\ \A f \in log :
                  (IsBatch(f.req) /\ TextsOf(f.req) = <<InputsOf(e.req)>>)
                      => f.resp.body.l = <<e.resp.body>>

\* a single string and the one-element batch of it have both been answered
C2_Witness ==
    \E e, f \in log :
        /\ IsSingle(e.req)
        /\ IsBatch(f.req)
        /\ TextsOf(f.req) = <<InputsOf(e.req)>>
        /\ e.resp.status = 200
        /\ f.resp.status = 200

\* C3 (as claimed): every body that parses as JSON and has no key `inputs`
\* (an object without it, the empty object, a value that is no object) gets
\* 400 {"error": "Missing inputs field"}, and the encoder is not called.
C3_MissingInputsIs400 ==
    \A e \in log :
        (e.req.text = "json" /\ ~(e.req.val.t = "obj" /\ Contains(INPUTS, e.req.val)))
            => /\ e.resp = Response(400, MissingBody)
               /\ e.calls = 0

\* C4 (as claimed): an empty body or one that is not parseable JSON gets 400,
\* never 500 and never a success.
C4_UnparseableIs400 ==
    \A e \in log :
        (e.req.text # "json" \/ e.req.val = JNull) => e.resp.status = 400

\* the exception a request makes embed() raise, as a set of messages: empty
\* when nothing is raised
Raised(r) ==
    IF GetJsonRaises(r) THEN {GetJsonMessage(r)}
    ELSE IF Falsy(get_json(r)) THEN {}
    ELSE IF InRaises(get_json(r)) THEN {InMessage(get_json(r))}
    ELSE IF ~Contains(INPUTS, get_json(r)) THEN {}
    ELSE IF SubscriptRaises(get_json(r)) THEN {SubscriptMessage(get_json(r))}
    ELSE IF IsSingle(r) \/ IsBatch(r) THEN {}
    ELSE {EncodeMessage(StartupModel, InputsOf(r))}

\* C5: a request during which an exception is raised gets status 500 with the
\* exception's message as its error field, and no vector at all.
C5_ExceptionIs500 ==
    \A e \in log :
        Raised(e.req) # {} =>
            /\ e.resp.status = 500
            /\ \E msg \in Raised(e.req) : e.resp.body = ErrorBody(msg)

\* a batch with one text and one non-text was answered, and so was a body
\* that failed to parse
C5_Witness ==
    /\ \E e \in log : /\ HasInputs(e.req)
                      /\ InputsOf(e.req).t = "list"
                      /\ \E i, j \in 1..Len(InputsOf(e.req).l) :
                            IsStr(InputsOf(e.req).l[i]) /\ ~IsStr(InputsOf(e.req).l[j])
                      /\ e.resp.status = 500
    /\ \E e \in log : e.req.text = "malformed" /\ e.resp.status = 500

\* C6: once requests have failed the server still serves with the model and
\* the identifier it started with, and a request that arrives after a failure
\* gets the response the same request got before any failure.
C6_FailuresDoNotLeak ==
    /\ Failed # {} =>
          /\ phase = "serving"
          /\ model = StartupModel
          /\ model_name = StartupName
    /\ \A e, f \in log :
          (e.req = f.req /\ ~e.afterFail /\ f.afterFail) => e.resp = f.resp

\* the same request succeeded before any failure and again after one
C6_Witness ==
    \E e, f \in log :
        /\ e.req = f.req
        /\ ~e.afterFail
        /\ f.afterFail
        /\ f.resp.status = 200
        /\ \E g \in log : g.resp.status = 500

\* C7: every /health response is {"status": "ok", "model": m} with m the
\* identifier resolved at startup, and once the model is loaded neither it
\* nor m changes, whatever requests are handled.
C7_HealthReportsStartupModel ==
    /\ \A h \in healthLog :
          h.resp = Response(200, JObj(<<KV(<<"status">>, JStr(<<"ok">>)),
                                        KV(<<"model">>, JStr(<<StartupName>>))>>))
    /\ phase \in {"loaded", "serving"} =>
          (model_name = StartupName /\ model = StartupModel)

\* /health was asked after a failed request, with MODEL_ID set
C7_Witness ==
    /\ environ["MODEL_ID"] # UNSET
    /\ \E h \in healthLog : h.afterFail
    /\ \E e \in log : e.resp.status = 200

\* C8: the model is loaded exactly once before any request is handled, no
\* request is handled without a loaded model, and a process whose load (or
\* start) failed never handles a request.
C8_LoadedOnceBeforeServing ==
    /\ loadCount <= 1
    /\ (arrived > 0 \/ phase = "serving") =>
          (loadCount = 1 /\ model.loaded /\ phase = "serving")
    /\ (loadCount = 1 /\ ~model.loaded) => phase = "crashed"
    /\ phase = "crashed" => (arrived = 0 /\ log = {} /\ healthLog = {} /\ Idle = Workers)

\* requests of both routes have been handled
C8_Witness ==
    /\ log # {}
    /\ healthLog # {}
    /\ loadCount = 1

\* C9: the vector a text gets does not depend on the request it came in, on
\* the requests handled before it, or on the requests in flight with it: any
\* two vectors given for the same text are equal, those of requests still in
\* flight included.
C9_SameTextSameVector ==
    /\ \A e, f \in log :
          (e.resp.status = 200 /\ f.resp.status = 200) =>
              \A i \in 1..Len(TextsOf(e.req)), j \in 1..Len(TextsOf(f.req)) :
                  TextsOf(e.req)[i] = TextsOf(f.req)[j] =>
                      /\ e.resp.body.t = "list"
                      /\ f.resp.body.t = "list"
                      /\ IsSingle(e.req) \/ i <= Len(e.resp.body.l)
                      /\ IsSingle(f.req) \/ j <= Len(f.resp.body.l)
                      /\ VecAt(e, i) = VecAt(f, j)
    /\ \A w \in Workers, e \in log :
          (pc[w] = "convert" /\ e.resp.status = 200) =>
              \A i \in 1..Len(TextsOf(req[w])), j \in 1..Len(TextsOf(e.req)) :
                  TextsOf(req[w])[i] = TextsOf(e.req)[j] =>
                      /\ i <= Len(embeddings[w])
                      /\ IsSingle(e.req) \/ j <= Len(e.resp.body.l)
                      /\ tolist(embeddings[w][i]) = VecAt(e, j)

\* a text answered earlier is encoded again, in another request shape, while
\* a different request is in flight beside it
C9_Witness ==
    \E w, v \in Workers, e \in log :
        /\ w # v
        /\ pc[w] = "convert"
        /\ pc[v] = "encode"
        /\ req[v] # req[w]
        /\ e.resp.status = 200
        /\ e.req # req[w]
        /\ \E i \in 1..Len(TextsOf(req[w])), j \in 1..Len(TextsOf(e.req)) :
              TextsOf(req[w])[i] = TextsOf(e.req)[j]

\* C10: a request makes at most one encoder call: exactly one, on the whole
\* sequence of texts (a single string as a one-element sequence), when its
\* body has `inputs`; none when it is answered 400; one and no more when the
\* encoder raised.
C10_EncodeOncePerRequest ==
    /\ \A w \in Workers : calls[w] <= 1
    /\ \A e \in log :
          /\ e.calls <= 1
          /\ HasInputs(e.req) =>
                /\ e.calls = 1
                /\ e.arg = IF IsSingle(e.req) THEN JList(<<InputsOf(e.req)>>)
                           ELSE InputsOf(e.req)
          /\ e.resp.status = 400 => e.calls = 0

\* a two-text batch was encoded in one call, a batch on which the encoder
\* raised got one call, and a rejected request got none
C10_Witness ==
    /\ \E e \in log : e.resp.status = 200 /\ e.calls = 1 /\ Len(e.arg.l) = 2
    /\ \E e \in log : e.resp.status = 500 /\ e.calls = 1
    /\ \E e \in log : e.resp.status = 400 /\ e.calls = 0

====
